---- MODULE Spec2Model ----
(***************************************************************************)
(* pyproject_scaffold/main.py: the Pyproject manifest builder, the         *)
(* scaffold step and the control flow of main.                             *)
(*                                                                         *)
(* Python objects that are shared by reference (the dependency list, the   *)
(* optional-dependencies table, the scripts table, the template's own      *)
(* objects) live in `heap`; a document value is either an immediate string *)
(* or a reference into the heap.  Strings that the code builds or takes    *)
(* apart (project name, version, entry-point targets) are sequences of     *)
(* characters; dependency specifiers, namespaces and script names are      *)
(* opaque and are TLA+ strings.                                            *)
(***************************************************************************)
EXTENDS Integers, Sequences, FiniteSets, TLC

VARIABLES
    template,               \* keys of the "project" table of static/pyproject.toml
    project_name,           \* self.project_name
    heap,                   \* the mutable objects, by identity
    project,                \* self.project, i.e. self.document["project"]
    dependencies,           \* self.dependencies (a reference)
    optional_dependencies,  \* self.optional_dependencies (None or a reference)
    scripts,                \* self.scripts (None or a reference)
    version_field,          \* self._version
    calls,                  \* the method calls made so far, with their arguments
    err,                    \* the exception the last call raised, or "none"
    args,                   \* the options record argparse returned to main
    pc,                     \* main's position
    idx,                    \* position of the loop main is in
    fs,                     \* entries of the target directory
    stdout,                 \* TRUE once the manifest was printed
    exit_code               \* the process's exit status, -1 while running

builder == <<template, project_name, heap, project, dependencies,
             optional_dependencies, scripts, version_field, calls, err>>
process == <<args, pc, idx, fs, stdout, exit_code>>
vars == <<builder, process>>

\* Longest sequence of method calls made on one builder.
MaxCalls == 3

-----------------------------------------------------------------------------
(* Values *)

None == 0

Str(s) == [ref |-> None, str |-> s]
Ref(i) == [ref |-> i, str |-> <<>>]

Range(s) == {s[i] : i \in DOMAIN s}

\* Python truthiness of an Optional[dict]: None and {} are both false.
Falsy(h, r) == r = None \/ DOMAIN h[r].table = {}

NewObject(site) == [site |-> site, list |-> <<>>, table |-> <<>>]

\* m[k] = v on a dict
Put(m, k, v) == [x \in DOMAIN m \cup {k} |-> IF x = k THEN v ELSE m[x]]

-----------------------------------------------------------------------------
(* Inputs *)

ProjectNames == { <<"f","o","o">>, <<"m","y","-","a","p","p">>, <<"a","_","b">> }

DefaultVersion == <<"0",".","1",".","0">>
Versions == { <<"2",".","3",".","4">>, <<"1",".","0",".","0">> }

DepArgs == { <<>>, <<"requests">>, <<"requests","requests">>,
             <<"flask","requests","flask">> }

Namespaces == {"dev", "test"}
OptArgs == { <<>>, <<"pytest">>, <<"pytest","pytest">>, <<"black","pytest">> }

ScriptNames == {"run", "cli"}

BasicKeys == {"name", "version", "dependencies"}
Templates == { {}, BasicKeys, {"optional-dependencies"},
               BasicKeys \cup {"scripts"},
               BasicKeys \cup {"optional-dependencies", "scripts"} }

default_dependencies == <<"requests", "pydantic">>
default_optional_dependencies == ("dev" :> <<"pytest", "pyfakefs", "pytest-mock">>)

Suffix == <<".","m","a","i","n",":","F","U","N","C","N","A","M","E">>

-----------------------------------------------------------------------------
(* Construction *)

\* The objects tomli builds for the template's project table, in heap order.
TemplateObjectKeys == <<"dependencies", "optional-dependencies", "scripts">>

TemplateObject(key) ==
    [site |-> "template",
     list |-> <<>>,
     table |-> IF key = "optional-dependencies" THEN ("dev" :> <<"tox">>)
               ELSE IF key = "scripts" THEN ("old" :> <<"o","l","d">>)
               ELSE <<>>]

\* static_pyproject()["project"] for a template with the given keys: the
\* heap holding its objects after self.dependencies (object 1), and the table.
static_pyproject(keys) ==
    LET objs == SelectSeq(TemplateObjectKeys, LAMBDA k : k \in keys)
        idOf(k) == 1 + CHOOSE i \in DOMAIN objs : objs[i] = k
    IN [heap |-> <<NewObject("dependencies")>>
                 \o [i \in DOMAIN objs |-> TemplateObject(objs[i])],
        project |-> [k \in keys |->
                       IF k \in Range(TemplateObjectKeys) THEN Ref(idOf(k))
                       ELSE Str(<<>>)]]

\* A call record; the fields a method does not take stay empty.
Call(op) == [op |-> op, deps |-> <<>>, namespace |-> "", name |-> "",
             version |-> <<>>]

InitBuilder ==
    /\ template \in Templates
    /\ project_name \in ProjectNames
    /\ heap = static_pyproject(template).heap
    /\ project = static_pyproject(template).project
    /\ dependencies = 1
    /\ optional_dependencies = None
    /\ scripts = None
    /\ version_field = DefaultVersion
    /\ calls = <<>>
    /\ err = "none"

\* s.replace("-", "_")
Normalize(s) == [k \in DOMAIN s |-> IF s[k] = "-" THEN "_" ELSE s[k]]

normalized_name == Normalize(project_name)

-----------------------------------------------------------------------------
(* The builder's methods.  Each is the effect of one call on the builder's  *)
(* state; `calls` and `err` record the call and how it ended.              *)

\* Installs one table in the document and returns another.
create_table_detached(h, p, name) ==
    [heap |-> Append(Append(h, NewObject(name)), NewObject(name)),
     project |-> Put(p, name, Ref(Len(h) + 1)),
     ret |-> Len(h) + 2]

\* self.project[name] = {}; return self.project[name]
create_table(h, p, name) ==
    [heap |-> Append(h, NewObject(name)),
     project |-> Put(p, name, Ref(Len(h) + 1)),
     ret |-> Len(h) + 1]

\* Iterates over the arguments themselves, without set().
IterList(deps) == {deps}

\* The orders in which `for dependency in set(dependencies)` can yield: every
\* arrangement of the distinct elements (set order is not specified).
IterSet(deps) ==
    LET S == Range(deps)
        n == Cardinality(S)
    IN {o \in [1..n -> S] : \A i, j \in 1..n : o[i] = o[j] => i = j}

add_dependencies(deps) ==
    /\ \E order \in IterSet(deps) :
          heap' = [heap EXCEPT ![dependencies].list = @ \o order]
    /\ calls' = Append(calls, [Call("add_dependencies") EXCEPT !.deps = deps])
    /\ err' = "none"
    /\ UNCHANGED <<template, project_name, project, dependencies,
                   optional_dependencies, scripts, version_field>>

\* Creates the table on every call, not on the first only.
OptionalRecreated(h, p, r, namespace, deps) ==
    LET c == create_table(h, p, "optional-dependencies")
    IN [heap |-> [c.heap EXCEPT ![c.ret].table = Put(@, namespace, deps)],
        project |-> c.project,
        ret |-> c.ret]

\* The heap, document table and reference after the lazy creation and the
\* appends of add_optional_dependencies.
OptionalAdded(h, p, r, namespace, deps) ==
    LET c == IF Falsy(h, r) THEN create_table(h, p, "optional-dependencies")
             ELSE [heap |-> h, project |-> p, ret |-> r]
        t == c.heap[c.ret].table
        t1 == IF namespace \notin DOMAIN t THEN Put(t, namespace, <<>>) ELSE t
        t2 == [t1 EXCEPT ![namespace] = @ \o deps]
    IN [heap |-> [c.heap EXCEPT ![c.ret].table = t2],
        project |-> c.project,
        ret |-> c.ret]

add_optional_dependencies(namespace, deps) ==
    /\ LET r == OptionalAdded(heap, project, optional_dependencies, namespace, deps)
       IN /\ heap' = r.heap
          /\ project' = r.project
          /\ optional_dependencies' = r.ret
    /\ calls' = Append(calls, [Call("add_optional_dependencies") EXCEPT
                              !.namespace = namespace, !.deps = deps])
    /\ err' = "none"
    /\ UNCHANGED <<template, project_name, dependencies, scripts, version_field>>

version(v) ==
    /\ version_field' = v
    /\ calls' = Append(calls, [Call("version") EXCEPT !.version = v])
    /\ err' = "none"
    /\ UNCHANGED <<template, project_name, heap, project, dependencies,
                   optional_dependencies, scripts>>

\* Builds the target from the normalized name.
EntryPointNormalized(name) == Normalize(name) \o Suffix

\* f"{self.project_name}.main:FUNCNAME"
EntryPoint(name) == name \o Suffix

ScriptAdded(h, p, r, name) ==
    LET c == IF Falsy(h, r) THEN create_table(h, p, "scripts")
             ELSE [heap |-> h, project |-> p, ret |-> r]
    IN [heap |-> [c.heap EXCEPT ![c.ret].table =
                     Put(@, name, EntryPoint(project_name))],
        project |-> c.project,
        ret |-> c.ret]

add_script(name) ==
    /\ LET r == ScriptAdded(heap, project, scripts, name)
       IN /\ heap' = r.heap
          /\ project' = r.project
          /\ scripts' = r.ret
    /\ calls' = Append(calls, [Call("add_script") EXCEPT !.name = name])
    /\ err' = "none"
    /\ UNCHANGED <<template, project_name, dependencies, optional_dependencies,
                   version_field>>

\* add_dependencies(*default_dependencies) runs; then
\* self.add_optional_dependencies.items() raises AttributeError (a bound
\* method has no attribute "items"), so the loop body never runs.
add_defaults ==
    /\ \E order \in IterSet(default_dependencies) :
          heap' = [heap EXCEPT ![dependencies].list = @ \o order]
    /\ calls' = Append(calls, Call("add_defaults"))
    /\ err' = "AttributeError"
    /\ UNCHANGED <<template, project_name, project, dependencies,
                   optional_dependencies, scripts, version_field>>

\* Writes the version only where the table has none yet.
BuiltVersionOnce(p) ==
    LET q == Put(Put(p, "name", Str(project_name)),
                 "dependencies", Ref(dependencies))
    IN IF "version" \in DOMAIN q THEN q ELSE Put(q, "version", Str(version_field))

\* The project table after build's three assignments.
Built(p) ==
    Put(Put(Put(p, "name", Str(project_name)),
            "dependencies", Ref(dependencies)),
        "version", Str(version_field))

build ==
    /\ project' = Built(project)
    /\ calls' = Append(calls, Call("build"))
    /\ err' = "none"
    /\ UNCHANGED <<template, project_name, heap, dependencies,
                   optional_dependencies, scripts, version_field>>

-----------------------------------------------------------------------------
(* A caller that makes any sequence of calls on one builder. *)

Init ==
    /\ InitBuilder
    /\ args = <<>>
    /\ pc = "builder"
    /\ idx = 0
    /\ fs = {}
    /\ stdout = FALSE
    /\ exit_code = -1

Counted == Len(calls) < MaxCalls /\ UNCHANGED process

AddDependencies == Counted /\ \E d \in DepArgs : add_dependencies(d)
AddOptionalDependencies ==
    Counted /\ \E n \in Namespaces, d \in OptArgs : add_optional_dependencies(n, d)
SetVersion == Counted /\ \E v \in Versions : version(v)
AddScript == Counted /\ \E n \in ScriptNames : add_script(n)
AddDefaults == Counted /\ add_defaults
Build == Counted /\ build

Next ==
    \/ AddDependencies
    \/ AddOptionalDependencies
    \/ SetVersion
    \/ AddScript
    \/ AddDefaults
    \/ Build

Spec == Init /\ [][Next]_vars

-----------------------------------------------------------------------------
(* main, from the options record that parse_args returned.  A step is a    *)
(* statement of main or of scaffold.  An uncaught exception and            *)
(* sys.exit(1) both end the process with status 1.                         *)

OptionalDepsArgs ==
    { <<>>,
      << <<"dev", "pytest">> >>,
      << <<"dev", "pytest">>, <<"test">>, <<"dev", "black", "pytest">> >>,
      << <<"dev">>, <<>> >> }

ScriptsArgs == { <<>>, <<"run">>, <<"run", "cli", "run">> }

MainArgs ==
    [name : ProjectNames,
     v : {<<>>} \cup Versions,
     deps : DepArgs,
     optional_deps : OptionalDepsArgs,
     scripts : ScriptsArgs,
     defaults : BOOLEAN,
     dry_run : BOOLEAN]

\* Directory entries: what the target directory held before the run, and
\* what scaffold and write_to create in it.
Entry(kind, pkg) == [kind |-> kind, pkg |-> pkg]
Existing == Entry("existing", <<>>)

InitMain ==
    /\ InitBuilder
    /\ args \in MainArgs
    /\ project_name = args.name
    /\ pc = "version"
    /\ idx = 0
    /\ fs \in {{}, {Existing}}
    /\ stdout = FALSE
    /\ exit_code = -1

\* Where main goes after a method call: on, or out with a traceback.
Goto(next) ==
    /\ pc' = IF err' = "none" THEN next ELSE "exit"
    /\ exit_code' = IF err' = "none" THEN exit_code ELSE 1

Exit(status) == pc' = "exit" /\ exit_code' = status

MainVersion ==
    /\ pc = "version"
    /\ IF args.v # <<>> THEN version(args.v) ELSE UNCHANGED builder
    /\ Goto("deps")
    /\ UNCHANGED <<args, idx, fs, stdout>>

MainDeps ==
    /\ pc = "deps"
    /\ IF args.deps # <<>> THEN add_dependencies(args.deps) ELSE UNCHANGED builder
    /\ Goto("optional_deps")
    /\ UNCHANGED <<args, idx, fs, stdout>>

MainOptionalDeps ==
    /\ pc = "optional_deps"
    /\ IF idx < Len(args.optional_deps)
       THEN LET item == args.optional_deps[idx + 1]
            IN IF item = <<>>
               THEN \* namespace, *deps = [] raises ValueError
                    /\ err' = "ValueError"
                    /\ UNCHANGED <<template, project_name, heap, project,
                                   dependencies, optional_dependencies, scripts,
                                   version_field, calls>>
                    /\ Exit(1)
                    /\ idx' = idx
               ELSE /\ add_optional_dependencies(Head(item), Tail(item))
                    /\ Goto("optional_deps")
                    /\ idx' = idx + 1
       ELSE /\ UNCHANGED builder
            /\ pc' = "scripts"
            /\ idx' = 0
            /\ UNCHANGED exit_code
    /\ UNCHANGED <<args, fs, stdout>>

MainScripts ==
    /\ pc = "scripts"
    /\ IF idx < Len(args.scripts)
       THEN /\ add_script(args.scripts[idx + 1])
            /\ Goto("scripts")
            /\ idx' = idx + 1
       ELSE /\ UNCHANGED builder
            /\ pc' = "defaults"
            /\ idx' = 0
            /\ UNCHANGED exit_code
    /\ UNCHANGED <<args, fs, stdout>>

MainDefaults ==
    /\ pc = "defaults"
    /\ IF args.defaults THEN add_defaults
       ELSE UNCHANGED builder
    /\ Goto(IF args.dry_run THEN "dry_run" ELSE "scaffold")
    /\ UNCHANGED <<args, idx, fs, stdout>>

\* pyproject.write_to(sys.stdout)
MainDryRun ==
    /\ pc = "dry_run"
    /\ build
    /\ stdout' = TRUE
    /\ Exit(0)
    /\ UNCHANGED <<args, idx, fs>>

\* The test inverted.
DirectoryEmpty(f) == f = {}

\* len(os.listdir(target_directory)) != 0
DirectoryNotEmpty(f) == f # {}

\* scaffold: the check of the target directory
ScaffoldCheck ==
    /\ pc = "scaffold"
    /\ IF DirectoryNotEmpty(fs) THEN Exit(1)
       ELSE pc' = "makedirs" /\ UNCHANGED exit_code
    /\ UNCHANGED <<builder, args, idx, fs, stdout>>

\* scaffold is given pyproject.normalized_name and normalizes it again
package_name == Normalize(normalized_name)

\* os.makedirs(target_directory/"src"/package_name)
ScaffoldMakedirs ==
    /\ pc = "makedirs"
    /\ fs' = fs \cup {Entry("src", <<>>), Entry("package", package_name)}
    /\ pc' = "touch_main"
    /\ UNCHANGED <<builder, args, idx, stdout, exit_code>>

ScaffoldTouchMain ==
    /\ pc = "touch_main"
    /\ fs' = fs \cup {Entry("main.py", package_name)}
    /\ pc' = "touch_init"
    /\ UNCHANGED <<builder, args, idx, stdout, exit_code>>

ScaffoldTouchInit ==
    /\ pc = "touch_init"
    /\ fs' = fs \cup {Entry("__init__.py", package_name)}
    /\ pc' = "write"
    /\ UNCHANGED <<builder, args, idx, stdout, exit_code>>

\* pyproject.write_to(current_directory/"pyproject.toml")
MainWrite ==
    /\ pc = "write"
    /\ build
    /\ fs' = fs \cup {Entry("pyproject.toml", <<>>)}
    /\ Exit(0)
    /\ UNCHANGED <<args, idx, stdout>>

NextMain ==
    \/ MainVersion
    \/ MainDeps
    \/ MainOptionalDeps
    \/ MainScripts
    \/ MainDefaults
    \/ MainDryRun
    \/ ScaffoldCheck
    \/ ScaffoldMakedirs
    \/ ScaffoldTouchMain
    \/ ScaffoldTouchInit
    \/ MainWrite

\* The process is sequential and runs until it exits.
SpecMain == InitMain /\ [][NextMain]_vars /\ WF_vars(NextMain)

-----------------------------------------------------------------------------
(* Properties *)

Deps == heap[dependencies].list
LastCall == calls[Len(calls)]
CallsOf(op) == {k \in DOMAIN calls : calls[k].op = op}
JustCalled(op) == calls # <<>> /\ LastCall.op = op

\* The step is a call of method `op`.
IsCall(op) ==
    /\ Len(calls') = Len(calls) + 1
    /\ calls'[Len(calls')].op = op

\* C1: a call add_dependencies(s1..sn) leaves the dependency list as it was,
\* followed by the distinct elements of {s1..sn}, each exactly once, in some
\* order; nothing is appended when n = 0; a specifier that is already in
\* the list is appended again.
C1_AddDependenciesAppendsDistinct ==
    [][IsCall("add_dependencies") =>
         LET given == Range(calls'[Len(calls')].deps)
             old == Deps
             new == Deps'
         IN /\ Len(new) = Len(old) + Cardinality(given)
            /\ SubSeq(new, 1, Len(old)) = old
            /\ Range(SubSeq(new, Len(old) + 1, Len(new))) = given]_vars

\* A second call has appended "requests" again, and "flask" once although
\* it was given twice.
C1_Witness ==
    /\ Len(calls) = 2
    /\ calls[1].op = "add_dependencies" /\ calls[1].deps = <<"requests">>
    /\ calls[2].op = "add_dependencies"
    /\ calls[2].deps = <<"flask", "requests", "flask">>
    /\ Deps = <<"requests", "flask", "requests">>

RECURSIVE Supplied(_, _)
\* The lists given to add_optional_dependencies for a namespace by the first
\* k calls, concatenated in call order.
Supplied(namespace, k) ==
    IF k = 0 THEN <<>>
    ELSE Supplied(namespace, k - 1) \o
         (IF calls[k].op = "add_optional_dependencies"
             /\ calls[k].namespace = namespace
          THEN calls[k].deps ELSE <<>>)

\* The list the builder's table holds for a namespace.
Stored(namespace) ==
    IF optional_dependencies = None THEN <<>>
    ELSE LET t == heap[optional_dependencies].table
         IN IF namespace \in DOMAIN t THEN t[namespace] ELSE <<>>

\* C2: after any sequence of calls the list stored for each namespace is the
\* concatenation, in call order, of the lists supplied for that namespace,
\* duplicates kept.
C2_OptionalListsAreConcatenations ==
    \A n \in Namespaces : Stored(n) = Supplied(n, Len(calls))

\* Two calls for "dev" with a call for "test" between them.
C2_Witness ==
    /\ Len(calls) = 3
    /\ calls[1].namespace = "dev" /\ calls[2].namespace = "test"
    /\ calls[3].namespace = "dev"
    /\ Stored("dev") = <<"pytest", "pytest", "black", "pytest">>
    /\ Stored("test") = <<"pytest">>

RECURSIVE LastVersion(_)
\* The argument of the last version call among the first k calls.
LastVersion(k) ==
    IF k = 0 THEN DefaultVersion
    ELSE IF calls[k].op = "version" THEN calls[k].version
    ELSE LastVersion(k - 1)

\* C3: every build leaves a document whose project.name is the raw project
\* name, whose project.dependencies is the builder's current dependency list
\* and whose project.version is the argument of the last version call, or
\* "0.1.0" when there was none.
C3_BuildWritesNameDependenciesVersion ==
    JustCalled("build") =>
        /\ BasicKeys \subseteq DOMAIN project
        /\ project["name"] = Str(project_name)
        /\ project["dependencies"].ref # None
        /\ heap[project["dependencies"].ref].list = Deps
        /\ project["version"] = Str(LastVersion(Len(calls)))

\* The version was set between two builds.
C3_Witness ==
    /\ Len(calls) = 3
    /\ calls[1].op = "build" /\ calls[2].op = "version"
    /\ calls[3].op = "build"
    /\ "version" \in template
    /\ project_name = <<"m","y","-","a","p","p">>
    /\ project["version"] = Str(<<"2",".","3",".","4">>)

\* The script names given to add_script so far.
ScriptsAdded == {calls[k].name : k \in CallsOf("add_script")}

\* C4: the scripts table holds exactly the names added so far, each mapped
\* to the raw project name followed by ".main:FUNCNAME".
C4_ScriptsMapToRawName ==
    IF ScriptsAdded = {} THEN scripts = None
    ELSE /\ scripts # None
         /\ DOMAIN heap[scripts].table = ScriptsAdded
         /\ \A n \in ScriptsAdded :
               heap[scripts].table[n] = project_name \o Suffix

C4_Witness ==
    /\ ScriptsAdded = {"run", "cli"}
    /\ scripts # None
    /\ heap[scripts].table["run"] =
          <<"m","y","-","a","p","p",".","m","a","i","n",":",
            "F","U","N","C","N","A","M","E">>

\* Whether list s ends with list e.
EndsWith(s, e) ==
    /\ Len(e) <= Len(s)
    /\ SubSeq(s, Len(s) - Len(e) + 1, Len(s)) = e

\* The list the document holds for a namespace of optional dependencies.
DocOptional(namespace) ==
    IF "optional-dependencies" \notin DOMAIN project THEN <<>>
    ELSE LET t == heap[project["optional-dependencies"].ref].table
         IN IF namespace \in DOMAIN t THEN t[namespace] ELSE <<>>

\* C5: after add_defaults the dependency list holds every default dependency
\* and the document's list of every default optional group ends with that
\* group's default specifiers.
C5_DefaultsApplied ==
    JustCalled("add_defaults") =>
        /\ Range(default_dependencies) \subseteq Range(Deps)
        /\ \A n \in DOMAIN default_optional_dependencies :
              EndsWith(DocOptional(n), default_optional_dependencies[n])

\* What the run has created in the target directory.
Created == fs \ {Existing}
Scaffolded == {Entry("src", <<>>), Entry("package", package_name),
               Entry("main.py", package_name),
               Entry("__init__.py", package_name)}
Manifest == Entry("pyproject.toml", <<>>)
NonEmptyRun == ~args.dry_run /\ Existing \in fs

\* C6: a run without --dry-run in a directory that is not empty creates
\* nothing at any point and ends with exit status 1; nothing is ever
\* written into a directory that held an entry before the run, and the
\* manifest is written only once scaffold has created all its entries.
C6_NonEmptyDirectoryRejected ==
    /\ [](NonEmptyRun => Created = {} /\ (pc = "exit" => exit_code = 1))
    /\ [][fs' # fs => ~args.dry_run /\ Existing \notin fs]_vars
    /\ [](Manifest \in fs => Scaffolded \subseteq fs)
    /\ (NonEmptyRun ~> pc = "exit")

\* scaffold itself has turned the run down, after the builder was filled.
C6_Witness ==
    /\ NonEmptyRun
    /\ pc = "exit" /\ exit_code = 1
    /\ err = "none"
    /\ ~args.defaults
    /\ Len(calls) >= 3
    /\ Created = {}

\* C7: no method call on a constructed builder raises.
C7_OperationsNeverRaise == err = "none"

Sections == {"optional-dependencies", "scripts"}
Field(section) ==
    IF section = "scripts" THEN scripts ELSE optional_dependencies
Method(section) ==
    IF section = "scripts" THEN "add_script" ELSE "add_optional_dependencies"
\* The tables _create_table has made for a section.
TablesOf(section) == {k \in DOMAIN heap : heap[k].site = section}

\* C8: for each optional section the table is created at most once, by the
\* first call of the section's method; from then on the document's entry
\* is the very table the builder holds; while the method was never called
\* the builder holds none, and the document has the key only if the
\* template had it.
C8_SectionTableCreatedOnceAndShared ==
    \A s \in Sections :
        IF CallsOf(Method(s)) = {}
        THEN /\ Field(s) = None
             /\ TablesOf(s) = {}
             /\ s \in DOMAIN project <=> s \in template
        ELSE /\ Field(s) # None
             /\ TablesOf(s) = {Field(s)}
             /\ s \in DOMAIN project
             /\ project[s] = Ref(Field(s))

\* Both sections in use, one of them through two calls.
C8_Witness ==
    /\ Len(calls) = 3
    /\ Cardinality(CallsOf("add_optional_dependencies")) = 2
    /\ Cardinality(CallsOf("add_script")) = 1
    /\ template = {"optional-dependencies"}
    /\ project["scripts"] = Ref(scripts)
    /\ project["optional-dependencies"] = Ref(optional_dependencies)
    /\ DOMAIN heap[optional_dependencies].table = {"dev", "test"}

\* What the document shows under a key of the project table.
View(p, h, key) ==
    IF key \notin DOMAIN p THEN [present |-> FALSE, str |-> <<>>, list |-> <<>>]
    ELSE [present |-> TRUE,
          str |-> p[key].str,
          list |-> IF p[key].ref = None THEN <<>> ELSE h[p[key].ref].list]

\* C9: a call of add_dependencies, add_optional_dependencies, version or
\* add_script leaves the document's project.name, project.dependencies and
\* project.version as they were, before and after a build.
C9_FieldsChangeOnlyInBuild ==
    [][(\E op \in {"add_dependencies", "add_optional_dependencies",
                   "version", "add_script"} : IsCall(op)) =>
         \A key \in BasicKeys :
            View(project', heap', key) = View(project, heap, key)]_vars

\* The module a script target names: the part before ".main:FUNCNAME".
ModulePrefix(target) == SubSeq(target, 1, Len(target) - Len(Suffix))

\* C10: the module prefix of every script entry-point target is the
\* normalized project name, the name of the package directory that scaffold
\* creates in the same run.
C10_ScriptTargetsNamePackage ==
    scripts # None =>
        \A n \in DOMAIN heap[scripts].table :
            /\ ModulePrefix(heap[scripts].table[n]) = normalized_name
            /\ \A e \in fs : e.kind = "package" =>
                  ModulePrefix(heap[scripts].table[n]) = e.pkg

====
